---------------------------- MODULE Spec2Model ----------------------------
(***************************************************************************)
(* Student Account Management System (src/src/accounting/index.js).        *)
(*                                                                         *)
(* State machine of MainProgram.run: one step is one iteration of the      *)
(* while loop (displayMenu, the menu prompt, and the whole dispatched      *)
(* operation, including its own prompt and its DataManager.write).         *)
(*                                                                         *)
(* A second specification, DataSpec, is the DataManager class called      *)
(* directly (write, read, getFormattedBalance), as its tests call it.      *)
(*                                                                         *)
(* Numbers.  A JavaScript number is modelled by a record                   *)
(*     [k |-> kind, m |-> thousandths, e |-> rounding error]               *)
(* k is "fin", "nan", "+inf" or "-inf".  For a finite number m is its      *)
(* decimal value in thousandths of a currency unit (a tenth of a cent), so *)
(* 1000.00 is m = 1000000, and e is the sign of the difference between the *)
(* binary64 value and the binary64 value nearest to that decimal: a parsed *)
(* literal and a quotient k/100 are correctly rounded (e = 0), a sum or a  *)
(* difference of two such values may land one step below or above          *)
(* (1000.06 + 998999.93 evaluates to 999999.9900000001).  Which way a      *)
(* binary64 operation rounds is decided by bits the decimal value does not *)
(* show, so it is a choice among the outcomes binary64 arithmetic can      *)
(* produce (FloatErrs, TieOutcomes).                                       *)
(*                                                                         *)
(* Text.  A string that the program inspects character by character (the   *)
(* amount typed at the prompt, the result of toFixed/padStart) is a        *)
(* sequence of one-character strings.  A console line is a sequence of     *)
(* fragments: the literal part of the template, then the characters of     *)
(* the formatted balance.                                                  *)
(***************************************************************************)
EXTENDS Integers, Sequences, FiniteSets, TLC

VARIABLES
    storageBalance,   \* DataManager.storageBalance
    continueFlag,     \* MainProgram.continueFlag
    pc,               \* where run() is: "loop", "exited", "crashed"
    console,          \* the lines console.log received during the last step
    last,             \* the last loop iteration: what was chosen and what it did
    tally,            \* what the creditAccount and debitAccount calls so far add up to
    steps             \* loop iterations so far

vars == <<storageBalance, continueFlag, pc, console, last, tally, steps>>

\* The number of loop iterations explored.
MaxSteps == 3

\* F applied to the value of x.
Let(x, F(_)) == CHOOSE r \in {F(v) : v \in {x}} : TRUE

---------------------------------------------------------------------------
\* Numbers

Fin(m) == [k |-> "fin", m |-> m, e |-> 0]

NaN == [k |-> "nan", m |-> 0, e |-> 0]

Inf(neg) == [k |-> IF neg THEN "-inf" ELSE "+inf", m |-> 0, e |-> 0]

\* A value that is not of type number (a string, undefined, null).
NotANumber == [k |-> "other", m |-> 0, e |-> 0]

\* typeof x === 'number'
IsNumber(x) == x.k # "other"

\* isNaN(x)
isNaN(x) == x.k = "nan"

\* x < y on numbers: false when either is NaN.
Lt(x, y) ==
    /\ x.k # "nan" /\ y.k # "nan"
    /\ \/ x.k = "-inf" /\ y.k # "-inf"
       \/ x.k # "+inf" /\ y.k = "+inf"
       \/ /\ x.k = "fin" /\ y.k = "fin"
          /\ \/ x.m < y.m
             \/ x.m = y.m /\ x.e < y.e

\* x > y
Gt(x, y) == Lt(y, x)

\* x >= y: false when either is NaN.
Ge(x, y) == x.k # "nan" /\ y.k # "nan" /\ ~Lt(x, y)

\* Whether the decimal value is a binary fraction (a multiple of 1/8), which
\* binary64 holds exactly at the magnitudes of this program.
IsDyadic(x) == x.k = "fin" /\ x.m % 125 = 0

\* The rounding errors x + y or x - y can have: none when the result is exact
\* (an operand is zero, or both operands are held exactly).
FloatErrs(x, y) ==
    IF x.k # "fin" \/ y.k # "fin" THEN {0}
    ELSE IF x.m = 0 \/ y.m = 0 \/ x = y THEN {0}
    ELSE IF IsDyadic(x) /\ IsDyadic(y) THEN {0}
    ELSE {-1, 0, 1}

\* x + y, with rounding error err.
Add(x, y, err) ==
    IF x.k = "nan" \/ y.k = "nan" THEN NaN
    ELSE IF x.k = "fin" /\ y.k = "fin" THEN [k |-> "fin", m |-> x.m + y.m, e |-> err]
    ELSE IF x.k = "fin" THEN y
    ELSE IF y.k = "fin" \/ y.k = x.k THEN x
    ELSE NaN

\* x - y, with rounding error err.
Sub(x, y, err) ==
    IF x.k = "nan" \/ y.k = "nan" THEN NaN
    ELSE IF x.k = "fin" /\ y.k = "fin" THEN [k |-> "fin", m |-> x.m - y.m, e |-> err]
    ELSE IF x.k = "fin" THEN Inf(y.k = "+inf")
    ELSE IF y.k = "fin" \/ y.k # x.k THEN x
    ELSE NaN

\* Whether x lies exactly halfway between two cents in decimal.
IsTie(x) == x.k = "fin" /\ x.m % 10 = 5

\* How a halfway value is rounded by Math.round(x * 100) (stored) and by
\* x.toFixed(2) (shown): TRUE is upwards.  toFixed rounds the exact binary
\* value, which is at or above the decimal tie or below it; the product x * 100
\* is itself rounded and may land on the tie from below.  So shown upwards
\* implies stored upwards.
TieOutcomes(x) ==
    IF ~IsTie(x) THEN {[stored |-> TRUE, shown |-> TRUE]}
    ELSE IF x.e > 0 \/ (x.e = 0 /\ IsDyadic(x)) THEN {[stored |-> TRUE, shown |-> TRUE]}
    ELSE IF x.e < 0 THEN {[stored |-> TRUE, shown |-> FALSE],
                          [stored |-> FALSE, shown |-> FALSE]}
    ELSE {[stored |-> TRUE, shown |-> TRUE],
          [stored |-> TRUE, shown |-> FALSE],
          [stored |-> FALSE, shown |-> FALSE]}

\* The nearest whole number of cents, in thousandths; a tie goes up or down.
NearestCent(m, up) ==
    LET q == m \div 10
        r == m % 10
    IN  IF r < 5 \/ (r = 5 /\ ~up) THEN q * 10 ELSE (q + 1) * 10

\* Math.round(x * 100) / 100
RoundCents(x, up) ==
    IF x.k = "fin" THEN Fin(NearestCent(x.m, up)) ELSE x

---------------------------------------------------------------------------
\* Text

Digits == {"0", "1", "2", "3", "4", "5", "6", "7", "8", "9"}

DigitVal(c) ==
    CASE c = "0" -> 0 [] c = "1" -> 1 [] c = "2" -> 2 [] c = "3" -> 3
      [] c = "4" -> 4 [] c = "5" -> 5 [] c = "6" -> 6 [] c = "7" -> 7
      [] c = "8" -> 8 [] c = "9" -> 9

DigitChar(d) ==
    CASE d = 0 -> "0" [] d = 1 -> "1" [] d = 2 -> "2" [] d = 3 -> "3"
      [] d = 4 -> "4" [] d = 5 -> "5" [] d = 6 -> "6" [] d = 7 -> "7"
      [] d = 8 -> "8" [] d = 9 -> "9"

RECURSIVE Pow10(_)
Pow10(n) == IF n = 0 THEN 1 ELSE 10 * Pow10(n - 1)

\* s without its first n characters.
DropN(s, n) == SubSeq(s, n + 1, Len(s))

StartsWith(s, p) == Len(s) >= Len(p) /\ SubSeq(s, 1, Len(p)) = p

\* s without its leading white space.
RECURSIVE TrimStart(_)
TrimStart(s) ==
    IF s # <<>> /\ Head(s) = " " THEN TrimStart(Tail(s)) ELSE s

\* The longest prefix of s made of decimal digits.
RECURSIVE TakeDigits(_)
TakeDigits(s) ==
    IF s # <<>> /\ Head(s) \in Digits THEN <<Head(s)>> \o TakeDigits(Tail(s)) ELSE <<>>

\* The value of a sequence of decimal digits, acc being the value read so far.
RECURSIVE DigitsValue(_, _)
DigitsValue(ds, acc) ==
    IF ds = <<>> THEN acc ELSE DigitsValue(Tail(ds), 10 * acc + DigitVal(Head(ds)))

InfinityChars == <<"I", "n", "f", "i", "n", "i", "t", "y">>

\* mant * 10^scale, in whole units: digits finer than a unit are dropped.
Scaled(mant, scale) ==
    IF scale >= 0 THEN mant * Pow10(scale) ELSE mant \div Pow10(0 - scale)

\* -x
Negate(x) ==
    IF x.k = "fin" THEN Fin(0 - x.m)
    ELSE IF x.k = "nan" THEN NaN
    ELSE Inf(x.k = "+inf")

\* The exponent that text r gives a literal it follows: e or E, an optional
\* sign and at least one digit; 0 when r is no exponent part.
ExponentOf(r) ==
    IF r = <<>> \/ Head(r) \notin {"e", "E"} THEN 0
    ELSE IF Len(r) >= 2 /\ r[2] = "-" THEN 0 - DigitsValue(TakeDigits(DropN(r, 2)), 0)
    ELSE IF Len(r) >= 2 /\ r[2] = "+" THEN DigitsValue(TakeDigits(DropN(r, 2)), 0)
    ELSE DigitsValue(TakeDigits(Tail(r)), 0)

\* The value of integer digits ip, fraction digits fp and what follows them, in
\* thousandths; NaN when there is no digit at all.
DecimalValue(ip, fp, rest) ==
    IF ip = <<>> /\ fp = <<>> THEN NaN
    ELSE Fin(Scaled(DigitsValue(ip \o fp, 0), 3 + ExponentOf(rest) - Len(fp)))

\* The value of the integer digits ip followed by text r.
AfterInteger(ip, r) ==
    IF r # <<>> /\ Head(r) = "."
    THEN Let(TakeDigits(Tail(r)), LAMBDA fp : DecimalValue(ip, fp, DropN(r, 1 + Len(fp))))
    ELSE DecimalValue(ip, <<>>, r)

\* The value of the longest prefix of u that is an unsigned decimal literal.
UnsignedPrefix(u) ==
    IF StartsWith(u, InfinityChars) THEN Inf(FALSE)
    ELSE Let(TakeDigits(u), LAMBDA ip : AfterInteger(ip, DropN(u, Len(ip))))

\* The value of the longest prefix of t that is a decimal literal.
SignedPrefix(t) ==
    IF t # <<>> /\ Head(t) = "-" THEN Let(UnsignedPrefix(Tail(t)), Negate)
    ELSE IF t # <<>> /\ Head(t) = "+" THEN UnsignedPrefix(Tail(t))
    ELSE UnsignedPrefix(t)

\* parseFloat(str): leading white space is skipped, then the longest prefix that
\* is a decimal literal (sign, digits, fraction, exponent, or Infinity) gives the
\* value and whatever follows it is ignored; NaN when there is no such prefix.
\* Digits finer than a thousandth are below the resolution of m and are dropped.
ParseFloat(str) == Let(TrimStart(str), SignedPrefix)

\* The decimal digits of a natural number.
RECURSIVE NatChars(_)
NatChars(n) ==
    IF n < 10 THEN <<DigitChar(n)>> ELSE NatChars(n \div 10) \o <<DigitChar(n % 10)>>

\* x.toFixed(2): the value rounded to cents (a tie as shownUp says), with two
\* fraction digits.
ToFixed2(x, shownUp) ==
    IF x.k = "nan" THEN <<"N", "a", "N">>
    ELSE IF x.k = "+inf" THEN InfinityChars
    ELSE IF x.k = "-inf" THEN <<"-">> \o InfinityChars
    ELSE LET neg   == x.m < 0
             cents == IF neg THEN (0 - NearestCent(x.m, shownUp)) \div 10
                      ELSE NearestCent(x.m, shownUp) \div 10
         IN  (IF neg THEN <<"-">> ELSE <<>>)
               \o NatChars(cents \div 100)
               \o <<".", DigitChar((cents % 100) \div 10), DigitChar(cents % 10)>>

\* s.padStart(n, c): c is put in front of s until it is n characters long.
RECURSIVE PadStart(_, _, _)
PadStart(s, n, c) == IF Len(s) >= n THEN s ELSE PadStart(<<c>> \o s, n, c)

\* Mutant of FormatBalance: the padding is left out.
FormatBalanceUnpadded(x, shownUp) == ToFixed2(x, shownUp)

\* x.toFixed(2).padStart(9, '0')
FormatBalance(x, shownUp) == PadStart(ToFixed2(x, shownUp), 9, "0")

---------------------------------------------------------------------------
\* DataManager

\* constructor: this.storageBalance = 1000.00
InitialBalance == 1000000

\* The upper bound in write: 999999.99
MaxBalance == 999999990

\* read()
Read(storage) == storage

\* Mutant of WriteThrows: the upper bound is not checked.
WriteThrowsNoUpperBound(balance) == Lt(balance, Fin(0))

\* write(balance): the condition under which it throws 'Invalid balance value'.
WriteThrows(balance) ==
    \/ ~IsNumber(balance)
    \/ Lt(balance, Fin(0))
    \/ Gt(balance, Fin(MaxBalance))

\* Mutant of WriteValue: Math.floor in place of Math.round.
WriteValueFloors(balance, storedUp) ==
    IF balance.k = "fin" THEN Fin((balance.m \div 10) * 10) ELSE balance

\* Mutant of WriteValue: the cents are rounded away (Math.round(balance)).
WriteValueWholeUnits(balance, storedUp) ==
    IF balance.k = "fin" THEN Fin(((balance.m + 500) \div 1000) * 1000) ELSE balance

\* Mutant of WriteValue: the balance is stored as given, without Math.round.
WriteValueUnrounded(balance, storedUp) == balance

\* write(balance): the value stored when it does not throw.
WriteValue(balance, storedUp) == RoundCents(balance, storedUp)

\* getFormattedBalance()
GetFormattedBalance(storage) == FormatBalance(storage, TRUE)

---------------------------------------------------------------------------
\* AccountOperations.  Each operation is given the stored balance and what the
\* prompt returns, and yields
\*   threw:   whether it ended by an exception (from DataManager.write)
\*   storage: DataManager.storageBalance when it ends
\*   lines:   what it passed to console.log
\*   calls:   how many times it called DataManager.write

InvalidAmountLine == <<"Invalid amount. Please enter a positive number.">>

InsufficientFundsLine == <<"Insufficient funds for this debit.">>

CurrentBalanceLine(formatted) == <<"Current balance: ">> \o formatted

CreditedLine(formatted) == <<"Amount credited. New balance: ">> \o formatted

DebitedLine(formatted) == <<"Amount debited. New balance: ">> \o formatted

\* Mutant of AmountInvalid: a negative amount is let through.
AmountInvalidNaNOnly(amount) == isNaN(amount)

\* Mutant of AmountInvalid: zero is rejected too (amount <= 0).
AmountInvalidZeroToo(amount) == isNaN(amount) \/ ~Gt(amount, Fin(0))

\* isNaN(amount) || amount < 0
AmountInvalid(amount) == isNaN(amount) \/ Lt(amount, Fin(0))

\* Mutant of FundsSufficient: the balance is compared with 0, not the amount.
FundsSufficientNonNegative(finalBalance, amount) == Ge(finalBalance, Fin(0))

\* Mutant of FundsSufficient: the comparison is strict (finalBalance > amount).
FundsSufficientStrict(finalBalance, amount) == Gt(finalBalance, amount)

\* finalBalance >= amount
FundsSufficient(finalBalance, amount) == Ge(finalBalance, amount)

\* Mutant of ViewBalance: the balance is printed as toFixed(2) gives it.
ViewBalanceUnpadded(storage) ==
    [threw |-> FALSE, storage |-> storage, calls |-> 0,
     lines |-> <<CurrentBalanceLine(ToFixed2(Read(storage), TRUE))>>]

\* viewBalance()
ViewBalance(storage) ==
    [threw |-> FALSE, storage |-> storage, calls |-> 0,
     lines |-> <<CurrentBalanceLine(FormatBalance(Read(storage), TRUE))>>]

\* Mutant of CreditAccount: the exception of write is caught and the credit is
\* reported as done.
CreditAccountSwallows(storage, amountStr, err, tie) ==
    Let(ParseFloat(amountStr), LAMBDA amount :
    LET finalBalance == Add(Read(storage), amount, err)
    IN  IF AmountInvalid(amount)
        THEN [threw |-> FALSE, storage |-> storage, calls |-> 0,
              lines |-> <<InvalidAmountLine>>]
        ELSE [threw |-> FALSE,
              storage |-> IF WriteThrows(finalBalance) THEN storage
                          ELSE WriteValue(finalBalance, tie.stored),
              calls |-> 1,
              lines |-> <<CreditedLine(FormatBalance(finalBalance, tie.shown))>>])

\* Mutant of CreditAccount: write assigns before it validates, so a write that
\* throws has already replaced the stored balance.
CreditAccountStoresFirst(storage, amountStr, err, tie) ==
    Let(ParseFloat(amountStr), LAMBDA amount :
    LET finalBalance == Add(Read(storage), amount, err)
    IN  IF AmountInvalid(amount)
        THEN [threw |-> FALSE, storage |-> storage, calls |-> 0,
              lines |-> <<InvalidAmountLine>>]
        ELSE IF WriteThrows(finalBalance)
        THEN [threw |-> TRUE, storage |-> WriteValue(finalBalance, tie.stored),
              calls |-> 1, lines |-> <<>>]
        ELSE [threw |-> FALSE, storage |-> WriteValue(finalBalance, tie.stored),
              calls |-> 1,
              lines |-> <<CreditedLine(FormatBalance(finalBalance, tie.shown))>>])

\* creditAccount(prompt), the prompt returning amountStr; err is the rounding
\* error of the sum and tie the way a halfway sum is rounded.
CreditAccount(storage, amountStr, err, tie) ==
    Let(ParseFloat(amountStr), LAMBDA amount :
    LET finalBalance == Add(Read(storage), amount, err)
    IN  IF AmountInvalid(amount)
        THEN [threw |-> FALSE, storage |-> storage, calls |-> 0,
              lines |-> <<InvalidAmountLine>>]
        ELSE IF WriteThrows(finalBalance)
        THEN [threw |-> TRUE, storage |-> storage, calls |-> 1, lines |-> <<>>]
        ELSE [threw |-> FALSE, storage |-> WriteValue(finalBalance, tie.stored),
              calls |-> 1,
              lines |-> <<CreditedLine(FormatBalance(finalBalance, tie.shown))>>])

\* debitAccount(prompt), the prompt returning amountStr.
DebitAccount(storage, amountStr, err, tie) ==
    Let(ParseFloat(amountStr), LAMBDA amount :
    LET finalBalance == Sub(Read(storage), amount, err)
    IN  IF AmountInvalid(amount)
        THEN [threw |-> FALSE, storage |-> storage, calls |-> 0,
              lines |-> <<InvalidAmountLine>>]
        ELSE IF ~FundsSufficient(Read(storage), amount)
        THEN [threw |-> FALSE, storage |-> storage, calls |-> 0,
              lines |-> <<InsufficientFundsLine>>]
        ELSE IF WriteThrows(finalBalance)
        THEN [threw |-> TRUE, storage |-> storage, calls |-> 1, lines |-> <<>>]
        ELSE [threw |-> FALSE, storage |-> WriteValue(finalBalance, tie.stored),
              calls |-> 1,
              lines |-> <<DebitedLine(FormatBalance(finalBalance, tie.shown))>>])

---------------------------------------------------------------------------
\* MainProgram

\* displayMenu()
MenuLines ==
    << <<"--------------------------------">>,
       <<"Account Management System">>,
       <<"1. View Balance">>,
       <<"2. Credit Account">>,
       <<"3. Debit Account">>,
       <<"4. Exit">>,
       <<"--------------------------------">> >>

InvalidChoiceLine == <<"Invalid choice, please select 1-4.">>

GoodbyeLine == <<"Exiting the program. Goodbye!">>

\* What the user may type at the menu prompt besides 1, 2, 3 and 4.
OtherChoices == {"0", "5", "-1", "", " 1", "abc"}

\* What the user may type at an amount prompt.
AmountInputs ==
    { <<"0">>,
      <<"5", "0", "0">>,
      <<"1", "0", "0", "0">>,
      <<"1", "5", "0", "0">>,
      <<"1", "5", "0", ".", "5", "0">>,
      <<"1", "2", "3", ".", "4", "5">>,
      <<"0", ".", "0", "6">>,
      <<"9", "9", "8", "9", "9", "9", ".", "9", "3">>,
      <<"0", ".", "0", "5", "9">>,
      <<"9", "9", "9", "9", "9", "9", ".", "9", "9">>,
      <<"0", ".", "0", "0", "5">>,
      <<"0", ".", "0", "0", "1">>,
      <<"1", "e", "3">>,
      <<" ", "2", "0", "0">>,
      <<"1", "0", "0", "a", "b", "c">>,
      <<"I", "n", "f", "i", "n", "i", "t", "y">>,
      <<"a", "b", "c">>,
      <<"-", "5", "0", "0">>,
      <<>> }

\* The tally t after operation op was given amount and ended with outcome r.
\* A credit or debit is accepted when its write went through.
\*   credits, debits: the accepted amounts added up, in thousandths
\*   wholeCents:      every amount entered so far was a whole number of cents
\*   fresh:           neither creditAccount nor debitAccount was called so far
TallyAfter(t, op, amount, r) ==
    IF op \notin {"credit", "debit"} THEN t
    ELSE LET accepted == r.calls = 1 /\ ~r.threw
         IN  [credits    |-> IF op = "credit" /\ accepted
                             THEN t.credits + amount.m ELSE t.credits,
              debits     |-> IF op = "debit" /\ accepted
                             THEN t.debits + amount.m ELSE t.debits,
              wholeCents |-> t.wholeCents /\ amount.k = "fin" /\ amount.m % 10 = 0,
              fresh      |-> FALSE]

\* The state after one iteration of the loop of run() that called an operation
\* with outcome r: an exception is caught nowhere and ends run().
Iterate(op, choice, input, r) ==
    /\ storageBalance' = r.storage
    /\ continueFlag' = continueFlag
    /\ pc' = IF r.threw THEN "crashed" ELSE "loop"
    /\ console' = MenuLines \o r.lines
    /\ last' = [op |-> op, choice |-> choice, input |-> input,
                before |-> storageBalance, threw |-> r.threw, calls |-> r.calls,
                afterOther |-> last.op = "other"]
    /\ \E amount \in {ParseFloat(input)} : tally' = TallyAfter(tally, op, amount, r)
    /\ steps' = steps + 1

\* The loop condition of run(), within the iterations explored.
AtLoop == pc = "loop" /\ continueFlag /\ steps < MaxSteps

\* case '1'
ChooseView ==
    /\ AtLoop
    /\ \E r \in {ViewBalance(storageBalance)} : Iterate("view", "1", <<>>, r)

\* case '2'
ChooseCredit ==
    /\ AtLoop
    /\ \E s \in AmountInputs :
         \E amount \in {ParseFloat(s)} :
           \E err \in FloatErrs(storageBalance, amount) :
             \E tie \in TieOutcomes(Add(storageBalance, amount, err)) :
               \E r \in {CreditAccount(storageBalance, s, err, tie)} :
                 Iterate("credit", "2", s, r)

\* case '3'
ChooseDebit ==
    /\ AtLoop
    /\ \E s \in AmountInputs :
         \E amount \in {ParseFloat(s)} :
           \E err \in FloatErrs(storageBalance, amount) :
             \E tie \in TieOutcomes(Sub(storageBalance, amount, err)) :
               \E r \in {DebitAccount(storageBalance, s, err, tie)} :
                 Iterate("debit", "3", s, r)

\* case '4': the flag is cleared, the loop ends and run() says goodbye.
ChooseExit ==
    /\ AtLoop
    /\ continueFlag' = FALSE
    /\ pc' = "exited"
    /\ console' = MenuLines \o <<GoodbyeLine>>
    /\ last' = [op |-> "exit", choice |-> "4", input |-> <<>>,
                before |-> storageBalance, threw |-> FALSE, calls |-> 0,
                afterOther |-> last.op = "other"]
    /\ steps' = steps + 1
    /\ UNCHANGED <<storageBalance, tally>>

\* Mutant of ChooseOther: an unknown choice ends the loop as '4' does.
ChooseOtherEndsLoop ==
    /\ AtLoop
    /\ \E c \in OtherChoices :
         /\ continueFlag' = FALSE
         /\ pc' = "exited"
         /\ console' = MenuLines \o <<InvalidChoiceLine, GoodbyeLine>>
         /\ last' = [op |-> "other", choice |-> c, input |-> <<>>,
                     before |-> storageBalance, threw |-> FALSE, calls |-> 0,
                     afterOther |-> last.op = "other"]
         /\ steps' = steps + 1
         /\ UNCHANGED <<storageBalance, tally>>

\* default
ChooseOther ==
    /\ AtLoop
    /\ \E c \in OtherChoices :
         Iterate("other", c, <<>>,
                 [threw |-> FALSE, storage |-> storageBalance, calls |-> 0,
                  lines |-> <<InvalidChoiceLine>>])

\* Mutant of Init: the ledger starts empty.
InitEmptyLedger ==
    /\ storageBalance = Fin(0)
    /\ continueFlag = TRUE
    /\ pc = "loop"
    /\ console = <<>>
    /\ last = [op |-> "none", choice |-> "", input |-> <<>>,
               before |-> Fin(0), threw |-> FALSE, calls |-> 0,
               afterOther |-> FALSE]
    /\ tally = [credits |-> 0, debits |-> 0, wholeCents |-> TRUE, fresh |-> TRUE]
    /\ steps = 0

\* new MainProgram(): a new DataManager, the flag set, nothing printed yet.
Init ==
    /\ storageBalance = Fin(InitialBalance)
    /\ continueFlag = TRUE
    /\ pc = "loop"
    /\ console = <<>>
    /\ last = [op |-> "none", choice |-> "", input |-> <<>>,
               before |-> Fin(InitialBalance), threw |-> FALSE, calls |-> 0,
               afterOther |-> FALSE]
    /\ tally = [credits |-> 0, debits |-> 0, wholeCents |-> TRUE, fresh |-> TRUE]
    /\ steps = 0

Next ==
    \/ ChooseView
    \/ ChooseCredit
    \/ ChooseDebit
    \/ ChooseExit
    \/ ChooseOther

Spec == Init /\ [][Next]_vars

---------------------------------------------------------------------------
\* DataManager called directly.  The class is exported and index.test.js calls
\* it so: one step is one call of write, read or getFormattedBalance on one
\* instance.  last records the call:
\*   op, arg: the method and its argument
\*   threw:   whether it ended by an exception
\*   ret:     what it returned (undefined, a number, or the characters of a string)
\*   written: the argument of the latest write that did not throw

\* undefined
Undefined == NotANumber

\* What a caller may pass to write: 0, 0.004, 0.01, 1.005, 99.99, 500.125,
\* 1234.56, 1234.567, 1500, 999999.99, 999999.991, 1000000, -0.001, -100, NaN,
\* Infinity, -Infinity, and a value that is no number.
WriteInputs ==
    { Fin(0), Fin(4), Fin(10), Fin(1005), Fin(99990), Fin(500125),
      Fin(1234560), Fin(1234567), Fin(1500000),
      Fin(MaxBalance), Fin(MaxBalance + 1), Fin(MaxBalance + 10),
      Fin(-1), Fin(-100000),
      NaN, Inf(FALSE), Inf(TRUE), NotANumber }

\* The instance is in use and the calls explored are not used up.
AtCall == pc = "direct" /\ steps < MaxSteps

\* The state after a call of op that left storage in DataManager.storageBalance.
Called(op, arg, storage, threw, ret, written) ==
    /\ storageBalance' = storage
    /\ last' = [op |-> op, arg |-> arg, before |-> storageBalance, threw |-> threw,
                ret |-> ret, written |-> written]
    /\ steps' = steps + 1
    /\ UNCHANGED <<continueFlag, pc, console, tally>>

\* dm.write(balance)
DMWrite ==
    /\ AtCall
    /\ \E balance \in WriteInputs :
         \E tie \in TieOutcomes(balance) :
           IF WriteThrows(balance)
           THEN Called("write", balance, storageBalance, TRUE, Undefined, last.written)
           ELSE Called("write", balance, WriteValue(balance, tie.stored), FALSE,
                       Undefined, balance)

\* dm.read()
DMRead ==
    /\ AtCall
    /\ Called("read", Undefined, storageBalance, FALSE, Read(storageBalance),
              last.written)

\* dm.getFormattedBalance()
DMGetFormattedBalance ==
    /\ AtCall
    /\ Called("format", Undefined, storageBalance, FALSE,
              GetFormattedBalance(storageBalance), last.written)

\* new DataManager()
DataInit ==
    /\ storageBalance = Fin(InitialBalance)
    /\ continueFlag = TRUE
    /\ pc = "direct"
    /\ console = <<>>
    /\ last = [op |-> "new", arg |-> Undefined, before |-> Fin(InitialBalance),
               threw |-> FALSE, ret |-> Undefined, written |-> Undefined]
    /\ tally = [credits |-> 0, debits |-> 0, wholeCents |-> TRUE, fresh |-> TRUE]
    /\ steps = 0

DataNext ==
    \/ DMWrite
    \/ DMRead
    \/ DMGetFormattedBalance

DataSpec == DataInit /\ [][DataNext]_vars

---------------------------------------------------------------------------
\* Vocabulary of the properties

\* What the operation of the last iteration passed to console.log.
OpLines == SubSeq(console, Len(MenuLines) + 1, Len(console))

\* The amount the last credit or debit read at its prompt.
LastAmount == ParseFloat(last.input)

LastIsCreditOrDebit == last.op \in {"credit", "debit"}

\* The amount of the last credit or debit is a number that is not negative.
LastAmountValid ==
    /\ LastIsCreditOrDebit
    /\ LastAmount.k \in {"fin", "+inf"}
    /\ LastAmount.k = "fin" => LastAmount.m >= 0

\* c is a whole number of cents nearest to x (both in thousandths).
IsNearestCent(c, x) == c % 10 = 0 /\ c - x <= 5 /\ x - c <= 5

\* chars has the shape dddddd.dd
IsFormatted(chars) ==
    /\ Len(chars) = 9
    /\ chars[7] = "."
    /\ \A i \in {1, 2, 3, 4, 5, 6, 8, 9} : chars[i] \in Digits

\* The amount, in thousandths, that a text of the shape dddddd.dd denotes.
ShownValue(chars) ==
    (DigitsValue(SubSeq(chars, 1, 6), 0) * 100 + DigitsValue(SubSeq(chars, 8, 9), 0)) * 10

\* The last operation printed the single line: text, then a formatted balance
\* that denotes a cent value nearest to x.
PrintedBalance(text, x) ==
    /\ Len(OpLines) = 1
    /\ Len(OpLines[1]) >= 1
    /\ OpLines[1][1] = text
    /\ IsFormatted(Tail(OpLines[1]))
    /\ IsNearestCent(ShownValue(Tail(OpLines[1])), x)

---------------------------------------------------------------------------
\* Properties

InsufficientDebitRejected ==
    (last.op = "debit" /\ LastAmountValid /\ Gt(LastAmount, last.before))
        => /\ OpLines = << <<"Insufficient funds for this debit.">> >>
           /\ last.calls = 0
           /\ ~last.threw
           /\ storageBalance = last.before

\* C2 witness: a debit beyond a balance that earlier operations have changed.
InsufficientDebitWitness ==
    /\ last.op = "debit" /\ LastAmountValid /\ Gt(LastAmount, last.before)
    /\ last.before.m # InitialBalance
    /\ last.before.m > 0

\* C3: a credit or debit whose input does not parse as a number, or parses as
\* a negative number, prints exactly the invalid-amount line, performs no write
\* and leaves the balance as it was.
InvalidAmountRejected ==
    (LastIsCreditOrDebit /\ (LastAmount.k = "nan" \/ Lt(LastAmount, Fin(0))))
        => /\ OpLines = << <<"Invalid amount. Please enter a positive number.">> >>
           /\ last.calls = 0
           /\ ~last.threw
           /\ storageBalance = last.before

\* C3 witness: a negative amount was entered for a credit.
InvalidAmountWitness ==
    /\ last.op = "credit"
    /\ LastAmount.k = "fin" /\ LastAmount.m < 0

FailureReturnsToMenu ==
    (/\ LastIsCreditOrDebit
     /\ \/ last.threw
        \/ OpLines = <<InvalidAmountLine>>
        \/ OpLines = <<InsufficientFundsLine>>)
        => pc = "loop" /\ continueFlag

\* C6 (as claimed): every credit of a non-negative whole-cent amount succeeds
\* and raises the balance by exactly that amount, whatever the result.
CreditUnlimited ==
    (/\ last.op = "credit"
     /\ LastAmount.k = "fin" /\ LastAmount.m >= 0 /\ LastAmount.m % 10 = 0)
        => /\ ~last.threw
           /\ storageBalance.m = last.before.m + LastAmount.m

\* C7 (as claimed): a credit of a valid amount a on balance b with
\* b + a <= 999999.99 stores b + a rounded to cents and prints the credited
\* line with the formatted b + a.
CreditApplied ==
    (/\ last.op = "credit"
     /\ LastAmount.k = "fin" /\ LastAmount.m >= 0
     /\ last.before.m + LastAmount.m <= MaxBalance)
        => /\ ~last.threw
           /\ storageBalance.k = "fin"
           /\ IsNearestCent(storageBalance.m, last.before.m + LastAmount.m)
           /\ PrintedBalance("Amount credited. New balance: ",
                             last.before.m + LastAmount.m)

\* C8: a debit of a valid amount a <= b on balance b stores b - a rounded to
\* cents and prints the debited line with the formatted b - a.
DebitApplied ==
    (/\ last.op = "debit"
     /\ LastAmount.k = "fin" /\ LastAmount.m >= 0
     /\ LastAmount.m <= last.before.m)
        => /\ ~last.threw
           /\ last.calls = 1
           /\ storageBalance.k = "fin"
           /\ IsNearestCent(storageBalance.m, last.before.m - LastAmount.m)
           /\ PrintedBalance("Amount debited. New balance: ",
                             last.before.m - LastAmount.m)

\* C8 witness: a debit with cents, smaller than the balance, was applied.
DebitAppliedWitness ==
    /\ last.op = "debit"
    /\ LastAmount.k = "fin" /\ LastAmount.m % 1000 # 0
    /\ LastAmount.m < last.before.m
    /\ storageBalance.m = last.before.m - LastAmount.m

\* C9: a debit equal to the balance succeeds and leaves exactly 0; at balance
\* 0 every debit of a positive amount is rejected as insufficient funds.
DebitInclusive ==
    /\ (last.op = "debit" /\ LastAmount.k = "fin" /\ LastAmount.m >= 0
          /\ LastAmount.m = last.before.m)
        => /\ ~last.threw
           /\ storageBalance = Fin(0)
           /\ PrintedBalance("Amount debited. New balance: ", 0)
    /\ (last.op = "debit" /\ last.before.m = 0 /\ Gt(LastAmount, Fin(0)))
        => /\ OpLines = << <<"Insufficient funds for this debit.">> >>
           /\ storageBalance = last.before

\* C9 witness: the balance had been debited to 0 and a positive debit followed.
DebitInclusiveWitness ==
    /\ last.op = "debit"
    /\ last.before = Fin(0)
    /\ LastAmount.k = "fin" /\ LastAmount.m > 0
    /\ steps >= 2

\* C10: a credit or a debit of "0" leaves the balance as it was and prints the
\* success line with that balance, in every state.
ZeroAmountNoOp ==
    (LastIsCreditOrDebit /\ last.input = <<"0">>)
        => /\ ~last.threw
           /\ storageBalance = last.before
           /\ PrintedBalance(IF last.op = "credit"
                             THEN "Amount credited. New balance: "
                             ELSE "Amount debited. New balance: ",
                             last.before.m)
           /\ ShownValue(Tail(OpLines[1])) = last.before.m

\* C10 witness: "0" was credited to a ledger at its upper bound.
ZeroAmountWitness ==
    /\ last.op = "credit" /\ last.input = <<"0">>
    /\ last.before.m = MaxBalance

\* C11: as long as every amount entered was a whole number of cents, the
\* balance is 1000.00 plus the accepted credits minus the accepted debits, and
\* a viewBalance that follows prints exactly that value.
SequenceAddsUp ==
    tally.wholeCents =>
        /\ storageBalance = Fin(InitialBalance + tally.credits - tally.debits)
        /\ last.op = "view" =>
              /\ PrintedBalance("Current balance: ",
                                InitialBalance + tally.credits - tally.debits)
              /\ ShownValue(Tail(OpLines[1]))
                    = InitialBalance + tally.credits - tally.debits

\* C11 witness: a credit and a debit with cents were accepted, then the
\* balance was viewed.
SequenceAddsUpWitness ==
    /\ tally.wholeCents
    /\ tally.credits % 1000 # 0
    /\ tally.debits > 0
    /\ tally.credits # tally.debits
    /\ last.op = "view"

\* x is a finite number between 0 and 999999.99.
ValidBalance(x) == x.k = "fin" /\ 0 <= x.m /\ x.m <= MaxBalance

\* C12 (as claimed): write(x) throws and leaves the stored balance as it was
\* for every x that is not a finite number between 0 and 999999.99, and goes
\* through for every x that is.
WriteValidates ==
    last.op = "write" =>
        /\ last.threw <=> ~ValidBalance(last.arg)
        /\ last.threw => storageBalance = last.before

\* C13: once write(x) went through with a valid x, read returns a whole number
\* of cents nearest to x, x itself when x has no finer digits, and
\* getFormattedBalance returns dddddd.dd denoting that same value.
WriteRoundTrip ==
    ValidBalance(last.written) =>
        /\ last.op = "read" =>
              /\ last.ret.k = "fin"
              /\ IsNearestCent(last.ret.m, last.written.m)
              /\ last.written.m % 10 = 0 => last.ret = last.written
        /\ last.op = "format" =>
              /\ IsFormatted(last.ret)
              /\ IsNearestCent(ShownValue(last.ret), last.written.m)
              /\ Read(storageBalance) = Fin(ShownValue(last.ret))

\* C13 witness: getFormattedBalance after a write of a value with a digit
\* finer than a cent.
WriteRoundTripWitness ==
    /\ last.op = "format"
    /\ ValidBalance(last.written)
    /\ last.written.m % 10 # 0
    /\ storageBalance.m # InitialBalance

\* The texts in front of a balance in the messages of viewBalance,
\* creditAccount and debitAccount.
BalanceTexts ==
    {"Current balance: ", "Amount credited. New balance: ",
     "Amount debited. New balance: "}

ViewShowsStored ==
    last.op = "view" =>
        /\ OpLines = << <<"Current balance: ">> \o GetFormattedBalance(storageBalance) >>
        /\ ShownValue(Tail(OpLines[1])) = storageBalance.m
        /\ storageBalance = last.before
        /\ last.calls = 0
        /\ ~last.threw

\* C15 witness: the balance is viewed after amounts finer than a cent have
\* changed it.
ViewShowsStoredWitness ==
    /\ last.op = "view"
    /\ ~tally.wholeCents
    /\ storageBalance.m # InitialBalance
    /\ storageBalance.m < 1000000

\* C16: before the first iteration the stored balance is exactly 1000.00, and
\* a viewBalance that no creditAccount or debitAccount call precedes prints
\* "Current balance: 001000.00".
FreshLedger ==
    /\ steps = 0 => storageBalance = [k |-> "fin", m |-> 1000000, e |-> 0]
    /\ (last.op = "view" /\ tally.fresh) =>
          OpLines = << <<"Current balance: ",
                         "0", "0", "1", "0", "0", "0", ".", "0", "0">> >>

\* C16 witness: the balance is viewed in a later iteration of a run that has
\* called neither creditAccount nor debitAccount.
FreshLedgerWitness ==
    /\ last.op = "view"
    /\ tally.fresh
    /\ steps >= 2

\* The last iteration printed one line that starts with text.
PrintedLine(text) == Len(OpLines) = 1 /\ OpLines[1][1] = text

\* C17: every iteration displays the menu first; choice 1 gives the output of
\* viewBalance, 2 one of the outcomes of creditAccount, 3 one of the outcomes
\* of debitAccount, 4 ends the loop; any other choice prints exactly the
\* invalid-choice line, leaves the balance as it was and leaves run() at the
\* head of its loop; and all of this holds of the iteration that follows an
\* invalid choice as well.
MenuDispatch ==
    /\ steps > 0 => SubSeq(console, 1, Len(MenuLines)) = MenuLines
    /\ last.choice = "1" =>
          /\ PrintedLine("Current balance: ")
          /\ storageBalance = last.before
          /\ pc = "loop"
    /\ last.choice = "2" =>
          \/ OpLines = <<InvalidAmountLine>> /\ storageBalance = last.before
          \/ PrintedLine("Amount credited. New balance: ") /\ last.calls = 1
          \/ OpLines = <<>> /\ last.threw
    /\ last.choice = "3" =>
          \/ OpLines = <<InvalidAmountLine>> /\ storageBalance = last.before
          \/ OpLines = <<InsufficientFundsLine>> /\ storageBalance = last.before
          \/ PrintedLine("Amount debited. New balance: ") /\ last.calls = 1
    /\ last.choice = "4" => pc = "exited" /\ ~continueFlag
    /\ (steps > 0 /\ last.choice \notin {"1", "2", "3", "4"}) =>
          /\ OpLines = << <<"Invalid choice, please select 1-4.">> >>
          /\ storageBalance = last.before
          /\ last.calls = 0
          /\ pc = "loop" /\ continueFlag

\* C17 witness: right after an invalid choice, choice 2 was made and the
\* credit went through.
MenuDispatchWitness ==
    /\ last.afterOther
    /\ last.choice = "2"
    /\ PrintedLine("Amount credited. New balance: ")
    /\ storageBalance # last.before

\* C18 (as claimed): the loop of run() is left only by choice 4: while the
\* last choice is another one run() is still in its loop, and once the loop
\* is left the last choice was 4, nothing ran after it, and the goodbye line
\* is the one line that follows the menu, the last thing printed.
LoopEndsOnlyOnExit ==
    /\ (steps > 0 /\ last.choice # "4") => pc = "loop" /\ continueFlag
    /\ pc # "loop" =>
          /\ last.choice = "4"
          /\ ~continueFlag
          /\ console = MenuLines \o << <<"Exiting the program. Goodbye!">> >>

\* C19 (as claimed): after a write of a valid value that went through, the
\* stored balance is a whole number of cents, the one nearest to the value
\* written, and the upper one when the value lies halfway between two.
WriteRoundsHalfAway ==
    (last.op = "write" /\ ~last.threw /\ ValidBalance(last.arg)) =>
        /\ storageBalance.k = "fin"
        /\ storageBalance.m % 10 = 0
        /\ storageBalance.m = NearestCent(last.arg.m, TRUE)

\* C20: an iteration leaves a stored balance other than the one it found only
\* if its creditAccount or debitAccount made a write that went through; the
\* menu with a view, an invalid choice or exit, a rejected amount, a debit
\* beyond the balance and a write that threw leave the balance as it was; and
\* no iteration calls write more than once.
OnlyWriteChanges ==
    /\ last.calls \in {0, 1}
    /\ storageBalance # last.before =>
          LastIsCreditOrDebit /\ last.calls = 1 /\ ~last.threw
    /\ last.op \in {"none", "view", "other", "exit"} =>
          storageBalance = last.before /\ last.calls = 0
    /\ (OpLines = <<InvalidAmountLine>> \/ OpLines = <<InsufficientFundsLine>>) =>
          storageBalance = last.before /\ last.calls = 0
    /\ last.threw => storageBalance = last.before /\ last.calls = 1

\* C20 witness: right after an invalid choice, a debit made its one write and
\* the balance changed.
OnlyWriteChangesWitness ==
    /\ last.op = "debit"
    /\ last.afterOther
    /\ last.calls = 1 /\ ~last.threw
    /\ storageBalance # last.before

\* r without the exponent part at its head (e or E, an optional sign, digits);
\* r itself when it starts with none.
AfterExponent(r) ==
    IF r = <<>> \/ Head(r) \notin {"e", "E"} THEN r
    ELSE LET u  == IF Len(r) >= 2 /\ r[2] \in {"+", "-"} THEN DropN(r, 2) ELSE Tail(r)
             ds == TakeDigits(u)
         IN  IF ds = <<>> THEN r ELSE DropN(u, Len(ds))

\* s is, from its first character that is no blank to its end, an unsigned
\* decimal number: digits, an optional fraction, an optional exponent.
IsDecimalText(s) ==
    LET t   == TrimStart(s)
        ip  == TakeDigits(t)
        r1  == DropN(t, Len(ip))
        dot == r1 # <<>> /\ Head(r1) = "."
        fp  == IF dot THEN TakeDigits(Tail(r1)) ELSE <<>>
        r2  == IF dot THEN DropN(r1, 1 + Len(fp)) ELSE r1
    IN  Len(ip) + Len(fp) > 0 /\ AfterExponent(r2) = <<>>

\* C21 (as claimed): a credit or debit whose input is not in its entirety a
\* non-negative decimal number prints exactly the invalid-amount line, calls
\* write not at all and leaves the balance as it was.
StrictParsing ==
    (LastIsCreditOrDebit /\ ~IsDecimalText(last.input)) =>
        /\ OpLines = <<InvalidAmountLine>>
        /\ last.calls = 0
        /\ ~last.threw
        /\ storageBalance = last.before

\* C22 (as claimed), for a credit to a ledger that holds its initial 1000.00:
\* the balance in the success message is the balance stored, character for
\* character what getFormattedBalance returns and a viewBalance that follows
\* would print.
ShownEqualsStored ==
    (/\ last.op = "credit" /\ last.calls = 1 /\ ~last.threw
     /\ last.before = Fin(InitialBalance))
        => /\ PrintedLine("Amount credited. New balance: ")
           /\ Tail(OpLines[1]) = GetFormattedBalance(storageBalance)

\* C23 (as claimed), for amounts whose sum with the balance does not lie
\* halfway between two cents: a credit of an amount above zero that reports
\* success leaves a stored balance above the one it found, and such a debit
\* one below it.
PositiveAmountChanges ==
    (/\ LastIsCreditOrDebit /\ last.calls = 1 /\ ~last.threw
     /\ LastAmount.k = "fin" /\ LastAmount.m > 0
     /\ LastAmount.m % 10 # 5)
        => /\ PrintedLine(IF last.op = "credit"
                          THEN "Amount credited. New balance: "
                          ELSE "Amount debited. New balance: ")
           /\ last.op = "credit" => Gt(storageBalance, last.before)
           /\ last.op = "debit" => Lt(storageBalance, last.before)

===========================================================================
